---- MODULE Spec2Model ----
(***************************************************************************)
(* Model of the clinic patient-record application (src/app.py): the two    *)
(* SQLite tables, the request handlers that read and write them, and the   *)
(* document parser that feeds the bulk import.                             *)
(*                                                                         *)
(* Text is a sequence of one-character strings, so that strip(), upper(),  *)
(* lower(), isdigit(), int() and the column affinities of SQLite are       *)
(* computed character by character, as the program computes them.          *)
(***************************************************************************)
EXTENDS Integers, Sequences, FiniteSets, TLC

VARIABLES patients, visits, visit_seq, req, resp

vars == <<patients, visits, visit_seq, req, resp>>

\* ------------------------------------------------------------------------
\* Bounds of the model
\* ------------------------------------------------------------------------
\* the largest number of rows of the visits table
MaxVisits == 3

\* ------------------------------------------------------------------------
\* Characters and Python's str methods
\* ------------------------------------------------------------------------
LowerAlpha == <<"a","b","c","d","e","f","g","h","i","j","k","l","m",
                "n","o","p","q","r","s","t","u","v","w","x","y","z">>
UpperAlpha == <<"A","B","C","D","E","F","G","H","I","J","K","L","M",
                "N","O","P","Q","R","S","T","U","V","W","X","Y","Z">>
AsciiDigits == <<"0","1","2","3","4","5","6","7","8","9">>
\* U+00B2 SUPERSCRIPT TWO: a digit for str.isdigit(), no literal for int()
SUP2 == "sup2"

E == << >>

IsSpace(c) == c = " "

UpperChar(c) ==
    IF \E i \in DOMAIN LowerAlpha : LowerAlpha[i] = c
    THEN UpperAlpha[CHOOSE i \in DOMAIN LowerAlpha : LowerAlpha[i] = c]
    ELSE c

LowerChar(c) ==
    IF \E i \in DOMAIN UpperAlpha : UpperAlpha[i] = c
    THEN LowerAlpha[CHOOSE i \in DOMAIN UpperAlpha : UpperAlpha[i] = c]
    ELSE c

upper(s) == [i \in DOMAIN s |-> UpperChar(s[i])]
lower(s) == [i \in DOMAIN s |-> LowerChar(s[i])]

RECURSIVE lstrip(_)
lstrip(s) == IF s # E /\ IsSpace(Head(s)) THEN lstrip(Tail(s)) ELSE s

RECURSIVE rstrip(_)
rstrip(s) ==
    IF s # E /\ IsSpace(s[Len(s)]) THEN rstrip(SubSeq(s, 1, Len(s) - 1)) ELSE s

strip(s) == rstrip(lstrip(s))

IsAsciiDigit(c) == \E i \in DOMAIN AsciiDigits : AsciiDigits[i] = c
DigitValue(c) == (CHOOSE i \in DOMAIN AsciiDigits : AsciiDigits[i] = c) - 1

\* str.isdigit(): non-empty and every character has the Unicode digit property
isdigit(s) == s # E /\ \A i \in DOMAIN s : IsAsciiDigit(s[i]) \/ s[i] = SUP2

\* int(s) of a string that passed isdigit(): raises ValueError on U+00B2
int_raises(s) == \E i \in DOMAIN s : ~IsAsciiDigit(s[i])

RECURSIVE int(_)
int(s) == IF s = E THEN 0 ELSE 10 * int(SubSeq(s, 1, Len(s) - 1)) + DigitValue(s[Len(s)])

startswith(s, p) == Len(s) >= Len(p) /\ SubSeq(s, 1, Len(p)) = p

contains(s, c) == \E i \in DOMAIN s : s[i] = c

\* s.replace(" ", "_")
replace_space(s) == [i \in DOMAIN s |-> IF s[i] = " " THEN "_" ELSE s[i]]

\* ------------------------------------------------------------------------
\* SQLite values, column affinity and comparison
\* ------------------------------------------------------------------------
NULL == [t |-> "null", n |-> 0, s |-> E]
Text(s) == [t |-> "text", n |-> 0, s |-> s]
Integer(n) == [t |-> "integer", n |-> n, s |-> E]

\* a TEXT value that is a well-formed integer literal (blanks around it allowed)
LooksLikeInteger(s) ==
    strip(s) # E /\ \A i \in DOMAIN strip(s) : IsAsciiDigit(strip(s)[i])

\* the column `age INTEGER`: a TEXT value that looks like an integer is stored
\* as that integer, any other value is stored as it is
IntegerAffinity(v) ==
    IF v.t = "text" /\ LooksLikeInteger(v.s) THEN Integer(int(strip(v.s))) ELSE v

\* the byte a character starts with in UTF-8, which memcmp() compares
Code(c) ==
    CASE c = " " -> 32
      [] c = "-" -> 45
      [] c = "." -> 46
      [] c = ":" -> 58
      [] c = "_" -> 95
      [] c = SUP2 -> 194
      [] IsAsciiDigit(c) -> 48 + DigitValue(c)
      [] \E i \in DOMAIN UpperAlpha : UpperAlpha[i] = c ->
            64 + (CHOOSE i \in DOMAIN UpperAlpha : UpperAlpha[i] = c)
      [] OTHER -> 96 + (CHOOSE i \in DOMAIN LowerAlpha : LowerAlpha[i] = c)

\* the BINARY collation of TEXT: a < b
RECURSIVE TextLess(_, _)
TextLess(a, b) ==
    IF b = E THEN FALSE
    ELSE IF a = E THEN TRUE
    ELSE IF Head(a) = Head(b) THEN TextLess(Tail(a), Tail(b))
    ELSE Code(Head(a)) < Code(Head(b))

\* ------------------------------------------------------------------------
\* request.form / request.args / dict
\* ------------------------------------------------------------------------
\* d.get(k, default)
get(d, k, default) == IF k \in DOMAIN d THEN d[k] ELSE default

NoForm == [k \in {} |-> E]

\* request.form.get(k) or None, bound as a SQL parameter
get_or_None(d, k) == IF k \in DOMAIN d /\ d[k] # E THEN Text(d[k]) ELSE NULL

\* request.form.get(k), bound as a SQL parameter
get_None(d, k) == IF k \in DOMAIN d THEN Text(d[k]) ELSE NULL

\* ------------------------------------------------------------------------
\* Responses
\* ------------------------------------------------------------------------
Flash(text, category) == [text |-> text, category |-> category]

Response(status, endpoint, vhid, flashes, patient, visitlist) ==
    [status |-> status, endpoint |-> endpoint, vhid |-> vhid,
     flashes |-> flashes, patient |-> patient, visits |-> visitlist,
     stats |-> << >>]

redirect(endpoint, vhid, flashes) ==
    Response("redirect", endpoint, vhid, flashes, {}, << >>)

render_template(template, flashes, patient, visitlist) ==
    Response("render", template, NULL, flashes, patient, visitlist)

jsonify(code, rows) == Response("json", code, NULL, << >>, rows, << >>)

\* an exception that leaves the view function: Flask answers 500
unhandled(exception, flashes) ==
    Response("exception", exception, NULL, flashes, {}, << >>)

Request(handler, method, arg, form, fail) ==
    [handler |-> handler, method |-> method, arg |-> arg, form |-> form,
     fail |-> fail]

\* ------------------------------------------------------------------------
\* The tables
\* ------------------------------------------------------------------------
PatientRow(vhid, date, name, age, gender, address, ref_by, mobile, past, drug, surg) ==
    [vhid |-> vhid, date |-> date, name |-> name, age |-> IntegerAffinity(age),
     gender |-> gender, address |-> address, ref_by |-> ref_by,
     mobile |-> mobile, past_history |-> past, drug_history |-> drug,
     surgical_history |-> surg]

\* SELECT * FROM patients WHERE vhid = ?
SelectPatient(table, vhid) == {r \in table : r.vhid = Text(vhid)}

\* no request is being served
NoRequest == Request("none", "GET", E, NoForm, {})
NoResponse == Response("none", "none", NULL, << >>, {}, << >>)

Idle == req = NoRequest

\* init_db() on a new database file, then app.run()
Init ==
    /\ patients = {}
    /\ visits = {}
    /\ visit_seq = 0
    /\ req = NoRequest
    /\ resp = NoResponse

\* the response is sent and the request context is popped: the server waits
\* for the next request
serve_next ==
    /\ ~Idle
    /\ req' = NoRequest
    /\ resp' = NoResponse
    /\ UNCHANGED <<patients, visits, visit_seq>>

\* ------------------------------------------------------------------------
\* The requests the clients send
\* ------------------------------------------------------------------------
A1 == <<"A","1">>
a1 == <<"a","1">>
B2 == <<"B","2">>

\* the ids a client asks for in /edit_visit/<int:visit_id> and /get_visit/<int:visit_id>
VisitIds == 1..MaxVisits

\* the vhid of the URL of /edit_patient/<vhid> and /add_visit/<vhid>
UrlVhids == {A1, a1}

AddProfiles ==
    { NoForm,
      ("date" :> <<"2","0","2","4","-","0","1","-","0","1">>) @@ ("age" :> <<" ","4","2">>) @@ ("gender" :> <<" ","M"," ">>)
        @@ ("address" :> <<" ","5"," ","E","l","m"," ">>) @@ ("referred" :> <<"D","r"," ","X"," ">>)
        @@ ("mobile" :> <<"1","2">>) @@ ("past_history" :> <<"x">>)
        @@ ("drug_history" :> <<" ","y">>) @@ ("surgical_history" :> <<"z"," ">>) }

AddForms ==
    {NoForm} \cup
    { ("vhid" :> v) @@ ("name" :> n) @@ p :
        v \in {E, <<" ","a","1"," ">>, B2}, n \in {E, <<" ","J","o"," ">>}, p \in AddProfiles }

RetrieveParams == {NoForm, "vhid" :> E, "vhid" :> <<" ","a","1"," ">>, "vhid" :> B2}

EditBase ==
    ("date" :> <<"2","0","2","4","-","0","3","-","0","1">>) @@ ("name" :> <<"A","n","n"," ">>) @@ ("age" :> <<"4","2">>)
      @@ ("gender" :> <<"F"," ">>) @@ ("address" :> <<"9"," ","O","a","k">>) @@ ("ref_by" :> <<" ","D","r"," ","Y">>)
      @@ ("mobile" :> <<" ","5","5","5"," ">>) @@ ("past_history" :> <<"x">>)
      @@ ("drug_history" :> E) @@ ("surgical_history" :> <<"z"," ">>)

EditForms ==
    { EditBase,
      ("age" :> E) @@ EditBase,
      ("name" :> <<" ">>) @@ EditBase,
      ("date" :> E) @@ EditBase,
      ("gender" :> E) @@ EditBase,
      ("mobile" :> <<"1","2","a","3">>) @@ EditBase,
      ("age" :> <<"2","0","0">>) @@ EditBase,
      ("age" :> <<SUP2>>) @@ EditBase,
      ("name" :> E) @@ ("mobile" :> <<"1","2","a","3">>) @@ EditBase }

Jan == <<"2","0","2","4","-","0","1","-","0","1">>
Mar == <<"2","0","2","4","-","0","3","-","0","1">>

VisitForm(date, complaints) ==
    ("vhid" :> B2) @@ ("date" :> date) @@ ("complaints" :> complaints)
      @@ ("vitals" :> <<" ","b","p"," ">>) @@ ("oe" :> <<"n","a","d">>) @@ ("imp" :> <<"f","l","u">>)
      @@ ("invgs" :> E) @@ ("treatment" :> <<"r","e","s","t"," ">>) @@ ("ref_by" :> <<"D","r"," ","X"," ">>)
      @@ ("examination" :> <<"o","k">>) @@ ("next_review" :> Mar)

Cough == <<" ","c","o","u","g","h">>

VisitForms ==
    { NoForm, VisitForm(E, Cough), VisitForm(Jan, <<" ">>),
      VisitForm(Jan, Cough), VisitForm(<<" ">> \o Mar \o <<" ">>, Cough) }

\* request.files.get('file'): the file name, and the paragraphs python-docx
\* reads from the document (corrupt: Document() raises)
File(present, filename, corrupt, paragraphs) ==
    [present |-> present, filename |-> filename, corrupt |-> corrupt,
     paragraphs |-> paragraphs]

NoFile == File(FALSE, E, FALSE, << >>)

Doc1 ==
    <<<<"P","a","t","i","e","n","t"," ","1">>,
    <<"V","H","I","D",":"," ","a","1">>,
    <<"N","a","m","e",":"," ","A","n","n">>,
    <<" ">>,
    <<"P","a","t","i","e","n","t"," ","2">>,
    <<"N","a","m","e",":"," ","B","o","b">>,
    <<"n","o","t","e","s">>,
    <<"P","A","T","I","E","N","T"," ","3">>,
    <<"v","h","i","d",":","b","2">>,
    <<"A","g","e",":"," ","4","2">>,
    <<"p","a","t","i","e","n","t"," ","4">>,
    <<"V","h","i","d",":"," ","A","1">>,
    <<"N","a","m","e",":"," ","Z","e","d">>,
    <<"P","a","s","t"," ","H","i","s","t","o","r","y",":"," ","x",":","y">>>>

Doc2 ==
    <<<<"v","h","i","d",":"," ","b","2">>,
    <<"n","a","m","e",":"," ","B","e","a">>,
    <<"M","o","b","i","l","e"," ",":"," ","1","2">>,
    <<"P","a","t","i","e","n","t">>,
    <<"P","a","t","i","e","n","t">>,
    <<"V","H","I","D",":"," "," ">>,
    <<"n","a","m","e",":"," ","N","i","l">>>>

Files ==
    { NoFile,
      File(TRUE, E, FALSE, << >>),
      File(TRUE, <<"p",".","t","x","t">>, FALSE, Doc1),
      File(TRUE, <<"p",".","v","2",".","D","O","C","X">>, FALSE, Doc1),
      File(TRUE, <<"b",".","d","o","c","x">>, FALSE, Doc2),
      File(TRUE, <<"b",".","d","o","c","x">>, TRUE, << >>) }

\* ------------------------------------------------------------------------
\* GET / and GET,POST /add
\* ------------------------------------------------------------------------
index ==
    /\ Idle
    /\ req' = Request("index", "GET", E, NoForm, {})
    /\ resp' = render_template("index.html", << >>, {}, << >>)
    /\ UNCHANGED <<patients, visits, visit_seq>>

add_patient_row(form) ==
    PatientRow(Text(upper(strip(get(form, "vhid", E)))),
               Text(strip(get(form, "date", E))),
               Text(strip(get(form, "name", E))),
               get_or_None(form, "age"),
               get_None(form, "gender"),
               Text(strip(get(form, "address", E))),
               Text(strip(get(form, "referred", E))),
               Text(strip(get(form, "mobile", E))),
               Text(strip(get(form, "past_history", E))),
               Text(strip(get(form, "drug_history", E))),
               Text(strip(get(form, "surgical_history", E))))

\* a patients table without its PRIMARY KEY
InsertPatientRaises_NoKey(table, row) == FALSE

\* the PRIMARY KEY of patients: INSERT raises IntegrityError on a stored vhid
InsertPatientRaises(table, row) == \E r \in table : r.vhid = row.vhid

add_patient_post(form, fail) ==
    LET row == add_patient_row(form)
    IN  IF row.vhid.s = E \/ row.name.s = E
        THEN /\ resp' = redirect("add_patient", NULL,
                    <<Flash("VHID and Name are required", "danger")>>)
             /\ UNCHANGED patients
        ELSE IF "db" \in fail
        THEN /\ resp' = redirect("add_patient", NULL,
                    <<Flash("Error adding patient", "danger")>>)
             /\ UNCHANGED patients
        ELSE IF InsertPatientRaises(patients, row)
        THEN /\ resp' = redirect("add_patient", NULL,
                    <<Flash("VHID already exists!", "danger")>>)
             /\ UNCHANGED patients
        ELSE /\ patients' = patients \cup {row}
             /\ resp' = redirect("retrieve_patient", row.vhid,
                    <<Flash("Patient added successfully!", "success")>>)

add_patient ==
    \E method \in {"GET", "POST"}, form \in AddForms, fail \in SUBSET {"db"} :
        /\ Idle
        /\ method = "GET" => form = NoForm /\ fail = {}
        /\ req' = Request("add_patient", method, E, form, fail)
        /\ IF method = "POST"
           THEN add_patient_post(form, fail)
           ELSE /\ resp' = render_template("add.html", << >>, {}, << >>)
                /\ UNCHANGED patients
        /\ UNCHANGED <<visits, visit_seq>>

\* ------------------------------------------------------------------------
\* GET,POST /retrieve
\* ------------------------------------------------------------------------
Rank(v) == CASE v.t = "null" -> 0 [] v.t = "integer" -> 1 [] OTHER -> 2

\* the order of SQLite values: NULL, then numbers, then text
ValLess(a, b) ==
    \/ Rank(a) < Rank(b)
    \/ /\ a.t = "integer" /\ b.t = "integer" /\ a.n < b.n
    \/ /\ a.t = "text" /\ b.t = "text" /\ TextLess(a.s, b.s)

\* ORDER BY date DESC, id ASC
OrderBefore_IdAsc(a, b) ==
    \/ ValLess(b.date, a.date)
    \/ /\ a.date = b.date
       /\ a.id < b.id

\* ORDER BY date DESC, id DESC: row a comes before row b
OrderBefore(a, b) ==
    \/ ValLess(b.date, a.date)
    \/ /\ a.date = b.date
       /\ a.id > b.id

RECURSIVE OrderBy(_)
OrderBy(rows) ==
    IF rows = {} THEN << >>
    ELSE LET first == CHOOSE r \in rows : \A o \in rows \ {r} : OrderBefore(r, o)
         IN  <<first>> \o OrderBy(rows \ {first})

\* SELECT * FROM visits WHERE vhid = ? ORDER BY date DESC, id DESC
SelectVisits(table, vhid) == OrderBy({v \in table : v.vhid = Text(vhid)})

\* params is request.form for a POST and request.args for a GET
retrieve_patient ==
    \E method \in {"GET", "POST"}, params \in RetrieveParams, fail \in SUBSET {"db"} :
        /\ Idle
        /\ req' = Request("retrieve_patient", method, E, params, fail)
        /\ IF method = "POST" /\ "vhid" \notin DOMAIN params
           THEN \* None.strip(), before the try block
                resp' = unhandled("AttributeError", << >>)
           ELSE LET vhid == upper(strip(get(params, "vhid", E)))
                    patient == SelectPatient(patients, vhid)
                IN  IF vhid = E
                    THEN resp' = render_template("retrieve.html", << >>, {}, << >>)
                    ELSE IF "db" \in fail
                    THEN resp' = render_template("retrieve.html",
                            <<Flash("Error retrieving patient", "danger")>>, {}, << >>)
                    ELSE IF patient = {}
                    THEN resp' = render_template("retrieve.html",
                            <<Flash("No record found for VHID", "danger")>>,
                            patient, SelectVisits(visits, vhid))
                    ELSE resp' = render_template("retrieve.html",
                            <<Flash("Patient record retrieved for VHID", "success")>>,
                            patient, SelectVisits(visits, vhid))
        /\ UNCHANGED <<patients, visits, visit_seq>>

\* ------------------------------------------------------------------------
\* POST /edit_patient/<vhid>
\* ------------------------------------------------------------------------
\* the list `errors` of edit_patient, given that int(age) does not raise
edit_patient_errors(form) ==
    LET name == strip(get(form, "name", E))
        date == strip(get(form, "date", E))
        gender == strip(get(form, "gender", E))
        mobile == strip(get(form, "mobile", E))
        age == get(form, "age", E)
    IN  (IF name = E THEN <<Flash("Name is required", "danger")>> ELSE << >>)
        \o (IF date = E THEN <<Flash("Date is required", "danger")>> ELSE << >>)
        \o (IF gender = E THEN <<Flash("Gender is required", "danger")>> ELSE << >>)
        \o (IF mobile # E /\ ~isdigit(mobile)
            THEN <<Flash("Mobile number must contain only digits", "danger")>>
            ELSE << >>)
        \o (IF age # E /\ (~isdigit(age) \/ int(age) < 0 \/ int(age) > 150)
            THEN <<Flash("Age must be a number between 0 and 150", "danger")>>
            ELSE << >>)

\* int(age) is evaluated, and raises ValueError
edit_patient_int_raises(form) ==
    LET age == get(form, "age", E)
    IN  age # E /\ isdigit(age) /\ int_raises(age)

\* UPDATE patients SET ... WHERE vhid = ?
UpdatePatient(table, vhid, form) ==
    {IF r.vhid = Text(vhid)
     THEN PatientRow(r.vhid,
                     Text(strip(get(form, "date", E))),
                     Text(strip(get(form, "name", E))),
                     get_or_None(form, "age"),
                     Text(strip(get(form, "gender", E))),
                     Text(strip(get(form, "address", E))),
                     Text(strip(get(form, "ref_by", E))),
                     Text(strip(get(form, "mobile", E))),
                     Text(strip(get(form, "past_history", E))),
                     Text(strip(get(form, "drug_history", E))),
                     Text(strip(get(form, "surgical_history", E))))
     ELSE r : r \in table}

edit_patient ==
    \E vhid \in UrlVhids, form \in EditForms, fail \in SUBSET {"db"} :
        /\ Idle
        /\ req' = Request("edit_patient", "POST", vhid, form, fail)
        /\ IF edit_patient_int_raises(form)
           THEN /\ resp' = redirect("retrieve_patient", Text(vhid),
                       <<Flash("Error updating patient", "danger")>>)
                /\ UNCHANGED patients
           ELSE IF edit_patient_errors(form) # << >>
           THEN /\ resp' = redirect("retrieve_patient", Text(vhid),
                       edit_patient_errors(form))
                /\ UNCHANGED patients
           ELSE IF "db" \in fail
           THEN /\ resp' = redirect("retrieve_patient", Text(vhid),
                       <<Flash("Error updating patient", "danger")>>)
                /\ UNCHANGED patients
           ELSE /\ patients' = UpdatePatient(patients, vhid, form)
                /\ resp' = redirect("retrieve_patient", Text(vhid),
                       <<Flash("Patient details updated successfully!", "success")>>)
        /\ UNCHANGED <<visits, visit_seq>>

\* ------------------------------------------------------------------------
\* POST /add_visit/<vhid>
\* ------------------------------------------------------------------------
VisitFields == {"date", "vitals", "complaints", "oe", "imp", "invgs", "treatment",
                "ref_by", "examination", "prov_diagnosis", "impression",
                "next_review", "past_history", "drug_history", "surgical_history"}

\* request.form.get(k, '').strip() for the fifteen fields of a visit
visit_values(form) == [k \in VisitFields |-> Text(strip(get(form, k, E)))]

VisitRow(id, vhid, values) ==
    [id |-> id, vhid |-> vhid, date |-> values["date"], ref_by |-> values["ref_by"],
     complaints |-> values["complaints"], past_history |-> values["past_history"],
     drug_history |-> values["drug_history"],
     surgical_history |-> values["surgical_history"], vitals |-> values["vitals"],
     examination |-> values["examination"],
     prov_diagnosis |-> values["prov_diagnosis"], invgs |-> values["invgs"],
     impression |-> values["impression"], treatment |-> values["treatment"],
     next_review |-> values["next_review"], imp |-> values["imp"],
     oe |-> values["oe"]]

\* the list `errors` of add_visit and of edit_visit
visit_errors(form) ==
    (IF strip(get(form, "date", E)) = E
     THEN <<Flash("Date is required", "danger")>> ELSE << >>)
    \o (IF strip(get(form, "complaints", E)) = E
        THEN <<Flash("Complaints are required", "danger")>> ELSE << >>)

\* FOREIGN KEY(vhid) REFERENCES patients(vhid): the program never issues
\* PRAGMA foreign_keys = ON, so SQLite does not enforce the constraint
ForeignKeyRaises(vhid) == FALSE

\* id INTEGER PRIMARY KEY AUTOINCREMENT: one more than the largest id ever used
NextVisitId == visit_seq + 1

add_visit ==
    \E vhid \in UrlVhids, form \in VisitForms, fail \in SUBSET {"db"} :
        /\ Idle
        /\ Cardinality(visits) < MaxVisits
        /\ req' = Request("add_visit", "POST", vhid, form, fail)
        /\ IF visit_errors(form) # << >>
           THEN /\ resp' = redirect("retrieve_patient", Text(vhid), visit_errors(form))
                /\ UNCHANGED <<visits, visit_seq>>
           ELSE IF "db" \in fail \/ ForeignKeyRaises(vhid)
           THEN /\ resp' = redirect("retrieve_patient", Text(vhid),
                       <<Flash("Error adding visit", "danger")>>)
                /\ UNCHANGED <<visits, visit_seq>>
           ELSE /\ visits' = visits \cup
                       {VisitRow(NextVisitId, Text(vhid), visit_values(form))}
                /\ visit_seq' = NextVisitId
                /\ resp' = redirect("retrieve_patient", Text(vhid),
                       <<Flash("Visit added successfully!", "success")>>)
        /\ UNCHANGED patients

\* ------------------------------------------------------------------------
\* POST /edit_visit/<int:visit_id>
\* ------------------------------------------------------------------------
\* SELECT vhid FROM visits WHERE id = ?
SelectVisit(table, visit_id) == {v \in table : v.id = visit_id}

\* UPDATE visits SET ... WHERE id = ?
UpdateVisit(table, visit_id, form) ==
    {IF v.id = visit_id THEN VisitRow(v.id, v.vhid, visit_values(form)) ELSE v :
        v \in table}

\* the except block of edit_visit: a second connection, and
\* `cursor.fetchone()[0] if cursor.fetchone() else request.form.get('vhid', '')`,
\* whose condition consumes the only row of the result
edit_visit_except(visit_id, form, fail, flashed) ==
    LET flashes == flashed \o <<Flash("Error updating visit", "danger")>>
    IN  IF "db2" \in fail
        THEN unhandled("OperationalError", flashes)
        ELSE IF SelectVisit(visits, visit_id) # {}
        THEN unhandled("TypeError", flashes)
        ELSE redirect("retrieve_patient", Text(get(form, "vhid", E)), flashes)

OwnerOf(table, visit_id) == (CHOOSE v \in table : v.id = visit_id).vhid

edit_visit ==
    \E visit_id \in VisitIds, form \in VisitForms,
       fail \in {{}, {"db"}, {"db2"}, {"db", "db2"}} :
        /\ Idle
        /\ req' = Request("edit_visit", "POST", visit_id, form, fail)
        /\ IF visit_errors(form) # << >>
           THEN /\ UNCHANGED visits
                /\ IF "db" \in fail \/ SelectVisit(visits, visit_id) = {}
                   THEN resp' = edit_visit_except(visit_id, form, fail, visit_errors(form))
                   ELSE resp' = redirect("retrieve_patient", OwnerOf(visits, visit_id),
                                    visit_errors(form))
           ELSE IF "db" \in fail
           THEN /\ UNCHANGED visits
                /\ resp' = edit_visit_except(visit_id, form, fail, << >>)
           ELSE /\ visits' = UpdateVisit(visits, visit_id, form)
                /\ IF SelectVisit(visits, visit_id) = {}
                   THEN \* fetchone() is None: TypeError inside the try block
                        resp' = edit_visit_except(visit_id, form, fail, << >>)
                   ELSE resp' = redirect("retrieve_patient", OwnerOf(visits, visit_id),
                                    <<Flash("Visit details updated successfully!",
                                            "success")>>)
        /\ UNCHANGED <<patients, visit_seq>>

\* ------------------------------------------------------------------------
\* GET /get_visit/<int:visit_id>
\* ------------------------------------------------------------------------
get_visit ==
    \E visit_id \in VisitIds, fail \in SUBSET {"db"} :
        /\ Idle
        /\ req' = Request("get_visit", "GET", visit_id, NoForm, fail)
        /\ IF "db" \in fail
           THEN resp' = jsonify("500", {})
           ELSE IF SelectVisit(visits, visit_id) = {}
           THEN resp' = jsonify("404", {})
           ELSE resp' = jsonify("200", SelectVisit(visits, visit_id))
        /\ UNCHANGED <<patients, visits, visit_seq>>

\* ------------------------------------------------------------------------
\* parse_word_doc
\* ------------------------------------------------------------------------
\* lines = [p.text.strip() for p in doc.paragraphs if p.text.strip()]
RECURSIVE stripped_lines(_)
stripped_lines(paragraphs) ==
    IF paragraphs = << >> THEN << >>
    ELSE IF strip(Head(paragraphs)) # E
    THEN <<strip(Head(paragraphs))>> \o stripped_lines(Tail(paragraphs))
    ELSE stripped_lines(Tail(paragraphs))

\* line.split(":", 1), for a line that contains ":"
FirstColon(line) == CHOOSE i \in DOMAIN line : line[i] = ":" /\ \A j \in 1..(i - 1) : line[j] # ":"
split_key(line) == SubSeq(line, 1, FirstColon(line) - 1)
split_value(line) == SubSeq(line, FirstColon(line) + 1, Len(line))

\* current[key] = value
dict_set(d, key, value) ==
    [k \in DOMAIN d \cup {key} |-> IF k = key THEN value ELSE d[k]]

PatientMarker == <<"p","a","t","i","e","n","t">>

RECURSIVE parse_lines(_, _, _)
parse_lines(lines, parsed, current) ==
    IF lines = << >>
    THEN IF DOMAIN current # {} THEN Append(parsed, current) ELSE parsed
    ELSE LET line == Head(lines)
         IN  IF startswith(lower(line), PatientMarker)
             THEN IF DOMAIN current # {}
                  THEN parse_lines(Tail(lines), Append(parsed, current), NoForm)
                  ELSE parse_lines(Tail(lines), parsed, current)
             ELSE IF contains(line, ":")
             THEN parse_lines(Tail(lines), parsed,
                      dict_set(current,
                               replace_space(lower(strip(split_key(line)))),
                               strip(split_value(line))))
             ELSE parse_lines(Tail(lines), parsed, current)

parse_word_doc(paragraphs) == parse_lines(stripped_lines(paragraphs), << >>, NoForm)

\* ------------------------------------------------------------------------
\* GET,POST /upload
\* ------------------------------------------------------------------------
ALLOWED_EXTENSIONS == {<<"d","o","c","x">>}

\* filename.rsplit('.', 1)[1], for a filename that contains "."
LastDot(filename) ==
    CHOOSE i \in DOMAIN filename :
        filename[i] = "." /\ \A j \in (i + 1)..Len(filename) : filename[j] # "."
extension(filename) == SubSeq(filename, LastDot(filename) + 1, Len(filename))

allowed_file(filename) ==
    contains(filename, ".") /\ lower(extension(filename)) \in ALLOWED_EXTENSIONS

\* the names of the columns, as keys of a parsed block
K_vhid == <<"v","h","i","d">>
K_date == <<"d","a","t","e">>
K_name == <<"n","a","m","e">>
K_age == <<"a","g","e">>
K_gender == <<"g","e","n","d","e","r">>
K_address == <<"a","d","d","r","e","s","s">>
K_ref_by == <<"r","e","f","_","b","y">>
K_mobile == <<"m","o","b","i","l","e">>
K_past_history == <<"p","a","s","t","_","h","i","s","t","o","r","y">>
K_drug_history == <<"d","r","u","g","_","h","i","s","t","o","r","y">>
K_surgical_history == <<"s","u","r","g","i","c","a","l","_","h","i","s","t","o","r","y">>

upload_row(vhid, data) ==
    PatientRow(Text(vhid),
               Text(get(data, K_date, E)), Text(get(data, K_name, E)),
               Text(get(data, K_age, E)), Text(get(data, K_gender, E)),
               Text(get(data, K_address, E)), Text(get(data, K_ref_by, E)),
               Text(get(data, K_mobile, E)), Text(get(data, K_past_history, E)),
               Text(get(data, K_drug_history, E)),
               Text(get(data, K_surgical_history, E)))

\* the loop with INSERT OR REPLACE in place of the SELECT that guards the INSERT
RECURSIVE import_blocks_overwrite(_, _)
import_blocks_overwrite(blocks, table) ==
    IF blocks = << >> THEN table
    ELSE LET data == Head(blocks)
             vhid == upper(strip(get(data, K_vhid, E)))
         IN  IF vhid = E
             THEN import_blocks_overwrite(Tail(blocks), table)
             ELSE import_blocks_overwrite(Tail(blocks),
                      (table \ SelectPatient(table, vhid)) \cup {upload_row(vhid, data)})

\* the loop `for data in patients` of upload_file, on the table as it stands
RECURSIVE import_blocks(_, _)
import_blocks(blocks, table) ==
    IF blocks = << >> THEN table
    ELSE LET data == Head(blocks)
             vhid == upper(strip(get(data, K_vhid, E)))
         IN  IF vhid = E
             THEN import_blocks(Tail(blocks), table)
             ELSE IF SelectPatient(table, vhid) # {}
             THEN import_blocks(Tail(blocks), table)
             ELSE import_blocks(Tail(blocks), table \cup {upload_row(vhid, data)})

upload_file ==
    \E method \in {"GET", "POST"}, file \in Files, fail \in SUBSET {"db"} :
        /\ Idle
        /\ method = "GET" => file = NoFile /\ fail = {}
        /\ req' = Request("upload_file", method, E, file, fail)
        /\ IF method = "GET"
           THEN /\ resp' = render_template("upload.html", << >>, {}, << >>)
                /\ UNCHANGED patients
           ELSE IF ~file.present \/ file.filename = E
           THEN /\ resp' = redirect("upload_file", NULL,
                       <<Flash("No file selected", "danger")>>)
                /\ UNCHANGED patients
           ELSE IF ~allowed_file(file.filename)
           THEN /\ resp' = redirect("upload_file", NULL,
                       <<Flash("Invalid file type. Only .docx allowed", "danger")>>)
                /\ UNCHANGED patients
           ELSE IF file.corrupt \/ "db" \in fail
           THEN \* Document() raises, or the transaction is rolled back
                /\ resp' = redirect("upload_file", NULL,
                       <<Flash("Error processing file", "danger")>>)
                /\ UNCHANGED patients
           ELSE /\ patients' = import_blocks(parse_word_doc(file.paragraphs), patients)
                /\ resp' = redirect("index", NULL,
                       <<Flash("Patient(s) uploaded successfully!", "success")>>)
        /\ UNCHANGED <<visits, visit_seq>>

\* ------------------------------------------------------------------------
\* GET /stats
\* ------------------------------------------------------------------------
statistics ==
    \E fail \in SUBSET {"db"} :
        /\ Idle
        /\ req' = Request("statistics", "GET", E, NoForm, fail)
        /\ IF "db" \in fail
           THEN resp' = redirect("index", NULL,
                    <<Flash("Error retrieving statistics", "danger")>>)
           ELSE resp' = [render_template("stats.html", << >>, {}, << >>)
                            EXCEPT !.stats = <<Cardinality(patients), Cardinality(visits)>>]
        /\ UNCHANGED <<patients, visits, visit_seq>>

\* ------------------------------------------------------------------------
\* The program
\* ------------------------------------------------------------------------
Next ==
    \/ index
    \/ add_patient
    \/ retrieve_patient
    \/ edit_patient
    \/ add_visit
    \/ edit_visit
    \/ get_visit
    \/ upload_file
    \/ statistics
    \/ serve_next

Spec == Init /\ [][Next]_vars

\* ------------------------------------------------------------------------
\* Properties
\* ------------------------------------------------------------------------
HasFlash(r, text) == \E i \in DOMAIN r.flashes : r.flashes[i].text = text

Keys(table) == {r.vhid : r \in table}

\* C1: a registration (POST /add with a non-empty vhid and name, the store
\* answering) whose trimmed, upper-cased vhid is not stored succeeds and stores
\* one row under that key; one whose trimmed, upper-cased vhid is already
\* stored fails with "VHID already exists!" and leaves every stored row as it was.
C1_DuplicateKeyRejected ==
    [][ (/\ req'.handler = "add_patient"
         /\ req'.method = "POST"
         /\ req'.fail = {}
         /\ strip(get(req'.form, "vhid", E)) # E
         /\ strip(get(req'.form, "name", E)) # E)
        => LET key == Text(upper(strip(get(req'.form, "vhid", E))))
           IN  IF key \in Keys(patients)
               THEN /\ patients' = patients
                    /\ resp'.status = "redirect"
                    /\ resp'.endpoint = "add_patient"
                    /\ resp'.flashes = <<Flash("VHID already exists!", "danger")>>
               ELSE /\ patients \subseteq patients'
                    /\ Cardinality(patients' \ patients) = 1
                    /\ Keys(patients' \ patients) = {key}
                    /\ resp'.flashes = <<Flash("Patient added successfully!", "success")>>
      ]_vars

\* a second registration of " a1 " is refused while the row of A1 is stored
C1_Witness ==
    /\ req.handler = "add_patient"
    /\ get(req.form, "vhid", E) = <<" ">> \o a1 \o <<" ">>
    /\ HasFlash(resp, "VHID already exists!")
    /\ Text(A1) \in Keys(patients)

\* C2: every stored visit's vhid is the key of a stored patient.
C2_NoOrphanVisit == \A v \in visits : v.vhid \in Keys(patients)

\* C3: every stored patient has a non-empty name.
C3_NameNonEmpty == \A r \in patients : r.name.t = "text" /\ r.name.s # E

\* the rules of a patient edit, as the specification states them
IsIntegerString(s) == s # E /\ \A i \in DOMAIN s : IsAsciiDigit(s[i])

AgeRuleViolated(form) ==
    LET age == get(form, "age", E)
    IN  age # E /\ ~(IsIntegerString(age) /\ int(age) >= 0 /\ int(age) <= 150)

MobileRuleViolated(form) ==
    LET mobile == strip(get(form, "mobile", E))
    IN  mobile # E /\ \E i \in DOMAIN mobile : ~IsAsciiDigit(mobile[i])

\* C4: an edit_patient request that violates an edit rule is rejected with the
\* message of each rule it violates, and no stored row changes.
C4_InvalidEditRejected ==
    [][ req'.handler = "edit_patient"
        => /\ (\/ strip(get(req'.form, "name", E)) = E
               \/ strip(get(req'.form, "date", E)) = E
               \/ strip(get(req'.form, "gender", E)) = E
               \/ MobileRuleViolated(req'.form)
               \/ AgeRuleViolated(req'.form))
              => /\ patients' = patients
                 /\ visits' = visits
                 /\ ~HasFlash(resp', "Patient details updated successfully!")
           /\ strip(get(req'.form, "name", E)) = E
              => HasFlash(resp', "Name is required")
           /\ strip(get(req'.form, "date", E)) = E
              => HasFlash(resp', "Date is required")
           /\ strip(get(req'.form, "gender", E)) = E
              => HasFlash(resp', "Gender is required")
           /\ MobileRuleViolated(req'.form)
              => HasFlash(resp', "Mobile number must contain only digits")
           /\ AgeRuleViolated(req'.form)
              => HasFlash(resp', "Age must be a number between 0 and 150")
      ]_vars

\* the columns of patients other than vhid, with the key of a parsed block
\* that holds each
PatientColumns ==
    { <<"date", K_date>>, <<"name", K_name>>, <<"age", K_age>>,
      <<"gender", K_gender>>, <<"address", K_address>>, <<"ref_by", K_ref_by>>,
      <<"mobile", K_mobile>>, <<"past_history", K_past_history>>,
      <<"drug_history", K_drug_history>>,
      <<"surgical_history", K_surgical_history>> }

BlockKey(block) ==
    IF K_vhid \in DOMAIN block THEN upper(strip(block[K_vhid])) ELSE E

\* C5: a bulk import that succeeds leaves every stored row as it was and adds
\* exactly one row for each distinct non-empty (trimmed, upper-cased) vhid of
\* the parsed blocks that was not stored, holding the fields of the first block
\* with that vhid and the empty string for the fields the block lacks; a bulk
\* import that does not succeed stores nothing.
C5_BulkImport ==
    [][ req'.handler = "upload_file"
        => IF HasFlash(resp', "Patient(s) uploaded successfully!")
           THEN \A blocks \in {parse_word_doc(req'.form.paragraphs)} :
                \A keys \in {[i \in DOMAIN blocks |-> Text(BlockKey(blocks[i]))]} :
                \A added \in {patients' \ patients} :
                  LET fresh == {keys[i] : i \in DOMAIN keys}
                                  \ ({Text(E)} \cup Keys(patients))
                  IN  /\ patients \subseteq patients'
                      /\ Keys(added) = fresh
                      /\ Cardinality(added) = Cardinality(fresh)
                      /\ \A r \in added :
                            LET i == CHOOSE i \in DOMAIN keys :
                                       /\ keys[i] = r.vhid
                                       /\ \A j \in 1..(i - 1) : keys[j] # r.vhid
                            IN  \A c \in PatientColumns :
                                   /\ c[2] \notin DOMAIN blocks[i] => r[c[1]] = Text(E)
                                   /\ c[2] \in DOMAIN blocks[i] /\ c[1] # "age"
                                         => r[c[1]] = Text(blocks[i][c[2]])
           ELSE patients' = patients
      ]_vars

\* Doc1 is imported while A1 is registered: the row of A1 keeps its name, the
\* row of B2 comes from the third block, which has an age and no name
C5_Witness ==
    /\ req.handler = "upload_file"
    /\ HasFlash(resp, "Patient(s) uploaded successfully!")
    /\ req.form.paragraphs = Doc1
    /\ \E r \in patients : r.vhid = Text(A1) /\ r.name = Text(<<"J","o">>)
    /\ \E r \in patients :
          r.vhid = Text(B2) /\ r.name = Text(E) /\ r.age = Integer(42)
             /\ r.mobile = Text(E)

\* a stored value matches a submitted field after normalization (the empty
\* and the absent field may be stored as the empty string or as NULL)
Normalized(stored, form, k) ==
    IF strip(get(form, k, E)) = E
    THEN stored \in {NULL, Text(E)}
    ELSE stored \in {Text(strip(form[k])), IntegerAffinity(Text(strip(form[k])))}

\* C6: after a registration succeeds, retrieving by its vhid returns one row,
\* whose fields are the submitted ones trimmed (vhid also upper-cased).
C6_RoundTrip ==
    (req.handler = "add_patient" /\ HasFlash(resp, "Patient added successfully!"))
    => \E r \in patients :
          /\ SelectPatient(patients, upper(strip(req.form["vhid"]))) = {r}
          /\ r.vhid = Text(upper(strip(req.form["vhid"])))
          /\ Normalized(r.date, req.form, "date")
          /\ Normalized(r.name, req.form, "name")
          /\ Normalized(r.age, req.form, "age")
          /\ Normalized(r.gender, req.form, "gender")
          /\ Normalized(r.address, req.form, "address")
          /\ Normalized(r.ref_by, req.form, "referred")
          /\ Normalized(r.mobile, req.form, "mobile")
          /\ Normalized(r.past_history, req.form, "past_history")
          /\ Normalized(r.drug_history, req.form, "drug_history")
          /\ Normalized(r.surgical_history, req.form, "surgical_history")

\* C7: the visit list retrieve_patient returns holds each stored visit of the
\* requested vhid once and no other, by date descending and, for equal dates,
\* by id descending; and a new visit's id is larger than every stored id, the
\* stored visits keeping theirs.
C7_VisitOrder ==
    /\ [](  (/\ req.handler = "retrieve_patient"
             /\ \/ HasFlash(resp, "Patient record retrieved for VHID")
                \/ HasFlash(resp, "No record found for VHID"))
            => LET key == Text(upper(strip(req.form["vhid"])))
                   list == resp.visits
               IN  /\ {list[i] : i \in DOMAIN list} = {v \in visits : v.vhid = key}
                   /\ \A i, j \in DOMAIN list :
                         i < j => \/ TextLess(list[j].date.s, list[i].date.s)
                                  \/ /\ list[i].date = list[j].date
                                     /\ list[i].id > list[j].id )
    /\ [][ /\ \A v \in visits' :
                 v.id \notin {o.id : o \in visits} => \A o \in visits : v.id > o.id
           /\ {v.id : v \in visits} \subseteq {v.id : v \in visits'}
           /\ Cardinality({v.id : v \in visits'}) = Cardinality(visits')
         ]_vars

\* the visits of 2024-01-01 (id 1), 2024-03-01 (id 2) and 2024-01-01 (id 3)
\* are returned in the order 2, 3, 1
C7_Witness ==
    /\ req.handler = "retrieve_patient"
    /\ Len(resp.visits) = 3
    /\ resp.visits[1].id = 2 /\ resp.visits[1].date = Text(Mar)
    /\ resp.visits[2].id = 3 /\ resp.visits[2].date = Text(Jan)
    /\ resp.visits[3].id = 1 /\ resp.visits[3].date = Text(Jan)

\* C8: an edit_visit request for an id that is not stored does not answer with
\* the generic error in place of "not found", and does not redirect to the
\* patient view of the vhid of its own form data.
C8_MissingVisitNoGuess ==
    (req.handler = "edit_visit" /\ SelectVisit(visits, req.arg) = {})
    => /\ ~HasFlash(resp, "Error updating visit")
       /\ ~(/\ resp.status = "redirect"
            /\ resp.endpoint = "retrieve_patient"
            /\ resp.vhid = Text(get(req.form, "vhid", E)))

\* C9: a valid edit_patient request for a vhid that is not stored does not
\* report success.
C9_MissingPatientNotFound ==
    (req.handler = "edit_patient" /\ SelectPatient(patients, req.arg) = {})
    => ~HasFlash(resp, "Patient details updated successfully!")

\* the request reached the operation on the store, and the store failed at
\* most once while it was served
ReachedStore ==
    /\ ~Idle
    /\ "db2" \notin req.fail
    /\ req.handler = "retrieve_patient" => "vhid" \in DOMAIN req.form

\* C10: whatever the outcome of the operation on the store, the handler
\* answers with a redirect, a rendered page or a JSON body: no exception
\* leaves the handler.
C10_NoExceptionEscapes == ReachedStore => resp.status # "exception"

====
